---- MODULE Spec2Model ----
(***************************************************************************)
(* SenseSafe backend: admin bootstrap (backend/create_admin.py), settings  *)
(* (config.py) and the connectivity prober (test_backend.py).              *)
(*                                                                         *)
(* Spec / SpecSeq   : NumProcs invocations of create_admin.py against one  *)
(*                    user store, interleaved freely / one after another.  *)
(* SpecProbe        : one run of test_backend.main().                      *)
(* SpecEndpoint     : one call of test_backend.test_endpoint().            *)
(***************************************************************************)
EXTENDS Integers, Sequences, FiniteSets, TLC

\* Number of create_admin.py invocations (deployment replicas / re-runs).
NumProcs == 2

\* Largest collection length a probed endpoint returns in its JSON body.
MaxItems == 1

Procs == 1..NumProcs

None == "None"

(***************************************************************************)
(* config.py                                                               *)
(***************************************************************************)

\* Mutant: DATABASE_URL declared with a default.
RequiredFieldsJwtOnly == {"JWT_SECRET"}

\* Fields of Settings that have no default (config.py:14, 17).
RequiredFields == {"DATABASE_URL", "JWT_SECRET"}

\* Defaults of the optional fields the bootstrap and the service read.
Defaults ==
  [JWT_ALGORITHM |-> "HSHS256",
   ADMIN_EMAIL |-> "admin@sensesafe.com",
   ADMIN_PASSWORD |-> "admin123"]

Fields == RequiredFields \cup DOMAIN Defaults

\* pydantic-settings source precedence: process environment, then the
\* env_file (".env"), then the field default.
FieldValue(env, file, k) ==
  IF k \in DOMAIN env THEN env[k]
  ELSE IF k \in DOMAIN file THEN file[k]
  ELSE IF k \in DOMAIN Defaults THEN Defaults[k]
  ELSE None

\* Settings(): a validation error listing every required field that no
\* source supplies, else the settings object.
Settings(env, file) ==
  LET missing == {k \in RequiredFields : FieldValue(env, file, k) = None}
  IN  IF missing # {}
      THEN [ok |-> FALSE, missing |-> missing]
      ELSE [ok |-> TRUE, value |-> [k \in Fields |-> FieldValue(env, file, k)]]

\* The process environments and .env files the model runs under.
Environments ==
  { << >>,
    "DATABASE_URL" :> "postgres://env",
    "JWT_SECRET" :> "k1",
    ("DATABASE_URL" :> "postgres://env") @@ ("JWT_SECRET" :> "k1"),
    ("DATABASE_URL" :> "postgres://env") @@ ("JWT_SECRET" :> "k1")
       @@ ("ADMIN_EMAIL" :> "a@x.com") @@ ("ADMIN_PASSWORD" :> "s3cret") }

EnvFiles ==
  { << >>,
    ("DATABASE_URL" :> "postgres://file") @@ ("JWT_SECRET" :> "k2"),
    ("JWT_SECRET" :> "k2") @@ ("ADMIN_EMAIL" :> "b@x.com") }

(***************************************************************************)
(* The user store (app.db) and the hasher (app.core.security)              *)
(***************************************************************************)

\* hash_password: salted, a fresh salt for every call.
hash_password(plaintext, salt) == [plain |-> plaintext, salt |-> salt]

\* User rows the store may hold before the first invocation.
OtherUser ==
  [id |-> 1, name |-> "Asha", email |-> "user@x.com",
   password_hash |-> hash_password("pw", 0), role |-> "USER", ability |-> "BLIND"]

StaleAdmin ==
  [id |-> 2, name |-> "Old Admin", email |-> "admin@sensesafe.com",
   password_hash |-> hash_password("old", 0), role |-> "USER", ability |-> "DEAF"]

InitialStores == { {}, {OtherUser}, {OtherUser, StaleAdmin} }

\* Autoincrement primary key.
NextId(rows) ==
  IF rows = {} THEN 1
  ELSE 1 + (CHOOSE m \in {r.id : r \in rows} : \A r \in rows : r.id <= m)

\* users.email is a unique key: an INSERT of a present email is rejected.
UniqueViolation(rows, rec) == \E r \in rows : r.email = rec.email


(***************************************************************************)
(* State                                                                   *)
(***************************************************************************)
VARIABLES
  environ,       \* os.environ of the deployment
  dotenv,        \* contents of the .env file
  store0,        \* the committed user rows before the first invocation
  store,         \* the committed user rows
  pc,            \* create_admin.py: where each invocation stands
  settings,      \* create_admin.py: the result of Settings() in each process
  db,            \* create_admin: the session, [state, pending]
  admin,         \* create_admin: {id} of the row the lookup returned, {} for None
  hashed_pw,     \* create_admin: the digest computed
  err,           \* create_admin: the exception caught, or None
  outcome,       \* create_admin: what the invocation printed
  exitStatus,    \* exit status of each create_admin.py process, -1 while it runs
  ppc,           \* test_backend.main: where the run stands
  idx,           \* test_backend.main: position in endpoints
  server,        \* how the backend treats the request in flight
  probed,        \* endpoints test_endpoint was called with, in order
  results,       \* what each test_endpoint call returned, in order
  success_count, \* test_backend.main: success_count
  verdict,       \* test_backend.main: the final message printed
  probeExit,     \* exit status of the test_backend.py process, -1 while it runs
  call           \* a single test_endpoint call: [endpoint, method, reply, pc, ret]

adminVars ==
  <<environ, dotenv, store0, store, pc, settings, db, admin, hashed_pw, err,
    outcome, exitStatus>>

probeVars ==
  <<ppc, idx, server, probed, results, success_count, verdict, probeExit>>

vars == <<adminVars, probeVars, call>>

(***************************************************************************)
(* backend/create_admin.py                                                 *)
(***************************************************************************)

\* The literals create_admin looks up, hashes and inserts.
LookupEmail == "admin@sensesafe.com"

LookupPassword == "admin123"

\* db.query(User).filter(User.email == ...).first(): {id} of the row, {} for None.
FirstByEmail(rows, email) ==
  LET found == {r \in rows : r.email = email}
  IN  IF found = {} THEN {}
      ELSE {(CHOOSE r \in found : \A q \in found : r.id <= q.id).id}

\* Mutant: the row is inserted under another address than the one looked up.
NewAdminOtherEmail(hashed) ==
  [name |-> "System Admin", email |-> "admin@sensesafe.org",
   password_hash |-> hashed, role |-> "ADMIN", ability |-> "NONE"]

\* User(name=..., email=..., password_hash=hashed_pw, role=ADMIN, ability=NONE)
NewAdmin(hashed) ==
  [name |-> "System Admin", email |-> "admin@sensesafe.com",
   password_hash |-> hashed, role |-> "ADMIN", ability |-> "NONE"]

\* Mutant: the update also resets the role.
SetPasswordAndRole(row, hashed) ==
  [row EXCEPT !.password_hash = hashed, !.role = "ADMIN"]

\* admin.password_hash = hashed_pw
SetPassword(row, hashed) == [row EXCEPT !.password_hash = hashed]

NotLoaded == [ok |-> FALSE, missing |-> {}]

NoWrite == [op |-> "none"]

NoDigest == [plain |-> "", salt |-> 0]

NoSession == [state |-> "none", pending |-> NoWrite]

\* Importing app.db.database / app.db.models constructs the settings
\* singleton (config.py:47); a validation error ends the process.
ImportApp(p) ==
  /\ pc[p] = "start"
  /\ LET s == Settings(environ, dotenv)
     IN  /\ settings' = [settings EXCEPT ![p] = s]
         /\ IF s.ok
            THEN /\ pc' = [pc EXCEPT ![p] = "main"]
                 /\ UNCHANGED exitStatus
            ELSE /\ pc' = [pc EXCEPT ![p] = "config_error"]
                 /\ exitStatus' = [exitStatus EXCEPT ![p] = 1]
  /\ UNCHANGED <<environ, dotenv, store0, store, db, admin, hashed_pw, err, outcome>>
  /\ UNCHANGED <<probeVars, call>>

\* db = SessionLocal()
OpenSession(p) ==
  /\ pc[p] = "main"
  /\ db' = [db EXCEPT ![p] = [state |-> "open", pending |-> NoWrite]]
  /\ pc' = [pc EXCEPT ![p] = "query"]
  /\ UNCHANGED <<environ, dotenv, store0, store, settings, admin, hashed_pw, err,
                 outcome, exitStatus>>
  /\ UNCHANGED <<probeVars, call>>

\* admin = db.query(User).filter(...).first(); the store may fail the query.
QueryAdmin(p) ==
  /\ pc[p] = "query"
  /\ \E fault \in BOOLEAN :
       IF fault
       THEN /\ err' = [err EXCEPT ![p] = "store_failure"]
            /\ pc' = [pc EXCEPT ![p] = "except"]
            /\ UNCHANGED admin
       ELSE /\ admin' = [admin EXCEPT ![p] = FirstByEmail(store, LookupEmail)]
            /\ pc' = [pc EXCEPT ![p] = "stage"]
            /\ UNCHANGED err
  /\ UNCHANGED <<environ, dotenv, store0, store, settings, db, hashed_pw, outcome,
                 exitStatus>>
  /\ UNCHANGED <<probeVars, call>>

\* Mutant: the existence check is dropped, the row is always added.
StagedWriteAlwaysInsert(found, h) == [op |-> "insert", row |-> NewAdmin(h)]

\* if admin: admin.password_hash = hashed_pw   else: db.add(new_admin)
StagedWrite(found, h) ==
  IF found # {}
  THEN [op |-> "update", id |-> found, password_hash |-> h]
  ELSE [op |-> "insert", row |-> NewAdmin(h)]

\* hashed_pw = hash_password("admin123"); then the branch on admin.
StageWrite(p) ==
  /\ pc[p] = "stage"
  /\ LET h == hash_password(LookupPassword, p)
     IN  /\ hashed_pw' = [hashed_pw EXCEPT ![p] = h]
         /\ db' = [db EXCEPT ![p].pending = StagedWrite(admin[p], h)]
  /\ pc' = [pc EXCEPT ![p] = "commit"]
  /\ UNCHANGED <<environ, dotenv, store0, store, settings, admin, err, outcome,
                 exitStatus>>
  /\ UNCHANGED <<probeVars, call>>

\* The rows after the pending write w is applied.
Applied(rows, w) ==
  IF w.op = "update"
  THEN {IF r.id \in w.id THEN SetPassword(r, w.password_hash) ELSE r : r \in rows}
  ELSE rows \cup {[id |-> NextId(rows)] @@ w.row}

\* db.commit(): flushes the pending write and commits it atomically; the
\* store may fail it, and rejects an insert of a present email.
Commit(p) ==
  /\ pc[p] = "commit"
  /\ \E fault \in BOOLEAN :
       LET w == db[p].pending
       IN  IF fault
           THEN /\ err' = [err EXCEPT ![p] = "store_failure"]
                /\ pc' = [pc EXCEPT ![p] = "except"]
                /\ UNCHANGED <<store, outcome, db>>
           ELSE IF w.op = "insert" /\ UniqueViolation(store, w.row)
           THEN /\ err' = [err EXCEPT ![p] = "integrity_error"]
                /\ pc' = [pc EXCEPT ![p] = "except"]
                /\ UNCHANGED <<store, outcome, db>>
           ELSE /\ store' = Applied(store, w)
                /\ db' = [db EXCEPT ![p].pending = NoWrite]
                /\ outcome' = [outcome EXCEPT ![p] =
                                 IF w.op = "update" THEN "updated" ELSE "created"]
                /\ pc' = [pc EXCEPT ![p] = "finally"]
                /\ UNCHANGED err
  /\ UNCHANGED <<environ, dotenv, store0, settings, admin, hashed_pw, exitStatus>>
  /\ UNCHANGED <<probeVars, call>>

\* except Exception as e: print the error and the traceback; db.rollback()
HandleException(p) ==
  /\ pc[p] = "except"
  /\ outcome' = [outcome EXCEPT ![p] = "error"]
  /\ db' = [db EXCEPT ![p].pending = NoWrite]
  /\ pc' = [pc EXCEPT ![p] = "finally"]
  /\ UNCHANGED <<environ, dotenv, store0, store, settings, admin, hashed_pw, err,
                 exitStatus>>
  /\ UNCHANGED <<probeVars, call>>

\* finally: db.close(); create_admin() returns and the script ends.
CloseSession(p) ==
  /\ pc[p] = "finally"
  /\ db' = [db EXCEPT ![p].state = "closed"]
  /\ exitStatus' = [exitStatus EXCEPT ![p] = 0]
  /\ pc' = [pc EXCEPT ![p] = "exit"]
  /\ UNCHANGED <<environ, dotenv, store0, store, settings, admin, hashed_pw, err,
                 outcome>>
  /\ UNCHANGED <<probeVars, call>>

ProbeIdle ==
  /\ ppc = "idle" /\ idx = 0 /\ server = None /\ probed = << >> /\ results = << >>
  /\ success_count = 0 /\ verdict = None /\ probeExit = -1

CallIdle == call = None

AdminProcsIdle ==
  /\ pc = [p \in Procs |-> "start"]
  /\ settings = [p \in Procs |-> NotLoaded]
  /\ db = [p \in Procs |-> NoSession]
  /\ admin = [p \in Procs |-> {}]
  /\ hashed_pw = [p \in Procs |-> NoDigest]
  /\ err = [p \in Procs |-> None]
  /\ outcome = [p \in Procs |-> None]
  /\ exitStatus = [p \in Procs |-> -1]

Init ==
  /\ environ \in Environments
  /\ dotenv \in EnvFiles
  /\ store0 \in InitialStores
  /\ store = store0
  /\ AdminProcsIdle
  /\ ProbeIdle
  /\ CallIdle

Step(p) ==
  \/ ImportApp(p)
  \/ OpenSession(p)
  \/ QueryAdmin(p)
  \/ StageWrite(p)
  \/ Commit(p)
  \/ HandleException(p)
  \/ CloseSession(p)

Ended(p) == pc[p] \in {"exit", "config_error"}

\* Replicas bootstrapping at the same time: any interleaving.
Next == \E p \in Procs : Step(p)

Spec == Init /\ [][Next]_vars

\* Re-runs: invocation p starts when every earlier one has ended.
Turn(p) == \A q \in 1..(p - 1) : Ended(q)

NextSeq ==
  \E p \in Procs :
    \/ Turn(p) /\ ImportApp(p)
    \/ Turn(p) /\ OpenSession(p)
    \/ Turn(p) /\ QueryAdmin(p)
    \/ Turn(p) /\ StageWrite(p)
    \/ Turn(p) /\ Commit(p)
    \/ Turn(p) /\ HandleException(p)
    \/ Turn(p) /\ CloseSession(p)

SpecSeq == Init /\ [][NextSeq]_vars


(***************************************************************************)
(* Properties of create_admin and Settings                                 *)
(***************************************************************************)

TheAdminEmail == "admin@sensesafe.com"

AdminRows(rows) == {r \in rows : r.email = TheAdminEmail}

AllRan == \A p \in Procs : pc[p] = "exit"

NoStoreFault(ps) == \A p \in ps : err[p] # "store_failure"

\* C1: from a store without a row for the admin email, once all the
\* concurrently started invocations have finished (the store failing none of
\* them) the store holds exactly one row for that email, also when several
\* invocations saw the row absent before any of them committed.
OneAdminAfterConcurrentRuns ==
  (AdminRows(store0) = {} /\ AllRan /\ NoStoreFault(Procs))
    => Cardinality(AdminRows(store)) = 1

\* C1 witness: two invocations both saw no row, and both have finished.
BothSawAbsentAndFinished ==
  /\ AdminRows(store0) = {} /\ AllRan /\ NoStoreFault(Procs)
  /\ \E p, q \in Procs :
       /\ p # q /\ admin[p] = {} /\ admin[q] = {}
       /\ outcome[p] = "created" /\ err[q] = "integrity_error"

\* C2: an invocation whose insert the unique constraint rejected retries as
\* an update and ends with outcome 'updated', not with an error.
LostInsertRaceEndsUpdated ==
  \A p \in Procs :
    (pc[p] = "exit" /\ err[p] = "integrity_error") => outcome[p] = "updated"

\* C3: from a store without a row for the admin email, after k runs one
\* after the other (the store failing none) there is exactly one row for that
\* email, with role ADMIN and ability NONE; run 1 reported 'created' and
\* inserted it, every later run reported 'updated' and inserted nothing.
SequentialRunsConverge ==
  \A k \in Procs :
    (AdminRows(store0) = {} /\ NoStoreFault(1..k) /\ \A q \in 1..k : pc[q] = "exit")
      => /\ outcome[k] = IF k = 1 THEN "created" ELSE "updated"
         /\ Cardinality(AdminRows(store)) = 1
         /\ \A r \in AdminRows(store) : r.role = "ADMIN" /\ r.ability = "NONE"
         /\ Cardinality(store) = Cardinality(store0) + 1

\* C3 witness: every run has finished and the last one reported 'updated'.
LastRunUpdated ==
  /\ AdminRows(store0) = {} /\ NoStoreFault(Procs) /\ AllRan
  /\ outcome[NumProcs] = "updated"

\* C4: a commit of create_admin for a row that exists changes that row's
\* password_hash and nothing else: its other fields, every other row and the
\* number of rows stay as they were.
UpdateChangesOnlyPasswordHash ==
  [][\A p \in Procs :
       (pc[p] = "commit" /\ pc'[p] = "finally" /\ admin[p] # {})
         => /\ Cardinality(store') = Cardinality(store)
            /\ \E old \in store :
                 /\ old.id \in admin[p]
                 /\ store' = (store \ {old})
                               \cup {[old EXCEPT !.password_hash = hashed_pw[p]]}]_vars

\* C4 witness: a run updated a row whose role is not ADMIN, and it still is not.
UpdatedStaleAdmin ==
  \E p \in Procs :
    /\ outcome[p] = "updated"
    /\ \E r \in store :
         r.password_hash = hashed_pw[p] /\ r.role = "USER" /\ r.ability = "DEAF"

\* C5: an invocation the store failed leaves no write of its own behind and
\* ends as a failure: error outcome and a non-zero exit status.
StoreFailureEndsNonZero ==
  \A p \in Procs :
    (pc[p] = "exit" /\ err[p] = "store_failure")
      => /\ db[p].pending = NoWrite
         /\ \A r \in store : r.password_hash # hashed_pw[p]
         /\ outcome[p] = "error"
         /\ exitStatus[p] # 0

\* C6: create_admin looks up and inserts the row of settings.ADMIN_EMAIL and
\* stores the hash of settings.ADMIN_PASSWORD.
ProvisionsConfiguredAdmin ==
  \A p \in Procs :
    (settings[p].ok /\ pc[p] \in {"stage", "commit", "finally", "exit"})
      => /\ LookupEmail = settings[p].value.ADMIN_EMAIL
         /\ (hashed_pw[p] # NoDigest
               => hashed_pw[p].plain = settings[p].value.ADMIN_PASSWORD)
         /\ (db[p].pending.op = "insert"
               => db[p].pending.row.email = settings[p].value.ADMIN_EMAIL)

DatabaseUrlSupplied == "DATABASE_URL" \in (DOMAIN environ \cup DOMAIN dotenv)

\* C7: no session is opened before the settings have loaded; with
\* DATABASE_URL supplied by neither source the load fails naming it, and no
\* session is ever opened.
NoSessionBeforeSettings ==
  \A p \in Procs :
    /\ db[p].state # "none" => settings[p].ok
    /\ (~DatabaseUrlSupplied /\ pc[p] # "start")
         => /\ pc[p] = "config_error"
            /\ "DATABASE_URL" \in settings[p].missing
            /\ db[p].state = "none"

\* C7 witness: a process ended at load time for want of DATABASE_URL.
FailedForWantOfDatabaseUrl ==
  \E p \in Procs : ~DatabaseUrlSupplied /\ pc[p] = "config_error"


(***************************************************************************)
(* test_backend.py                                                         *)
(***************************************************************************)

endpoints ==
  <<"/health", "/api/sos/user", "/api/incidents/user", "/api/messages/admin/all",
    "/api/admin/incidents", "/api/admin/sos">>

total_count == Len(endpoints)

\* The methods test_endpoint issues a request for; any other leaves
\* `response` unbound.
RequestMethods == {"GET", "POST", "PATCH"}

Methods == RequestMethods \cup {"DELETE"}

\* The collection fields test_endpoint recognises, in the order it tests them.
KnownFields == <<"sos_alerts", "incidents", "messages">>

FieldNames == {KnownFields[i] : i \in 1..Len(KnownFields)} \cup {"status"}

\* A JSON value of a field: a collection of n elements, or one len() rejects.
FieldValues ==
  {[sized |-> TRUE, n |-> n] : n \in 0..MaxItems} \cup {[sized |-> FALSE, n |-> 0]}

\* Response bodies: not JSON, a JSON array, or a JSON object.
Bodies ==
  {[kind |-> "text"], [kind |-> "list"]}
    \cup {[kind |-> "dict", fields |-> f] :
            f \in UNION {[D -> FieldValues] : D \in SUBSET FieldNames}}

StatusCodes == {200, 399, 400, 500}

\* What the backend does with a request: fails the transport (refused, DNS),
\* answers, or accepts the connection and never answers.
Replies ==
  {[kind |-> "error"], [kind |-> "silent"]}
    \cup {[kind |-> "response", status |-> c, body |-> b] :
            c \in StatusCodes, b \in Bodies}

\* Mutant: the comparison lets 400 through.
StatusOkInclusive(code) == code <= 400

\* if response.status_code < 400
StatusOk(code) == code < 400

\* What test_endpoint prints about the body of a response below 400.
BodySummary(body) ==
  IF body.kind = "text" THEN [kind |-> "non_json"]
  ELSE IF body.kind # "dict" THEN [kind |-> "nothing"]
  ELSE LET f == body.fields
           hits == {i \in 1..Len(KnownFields) : KnownFields[i] \in DOMAIN f}
       IN  IF hits = {} THEN [kind |-> "keys", keys |-> DOMAIN f]
           ELSE LET k == KnownFields[CHOOSE i \in hits : \A j \in hits : i <= j]
                IN  IF f[k].sized
                    THEN [kind |-> "count", field |-> k, n |-> f[k].n]
                    ELSE [kind |-> "non_json"]

ConnectionFailed ==
  [ok |-> FALSE, status |-> {}, summary |-> [kind |-> "connection_failed"]]

\* test_endpoint, for a request that comes back: what it returns and prints.
test_endpoint(method, reply) ==
  IF method \notin RequestMethods \/ reply.kind = "error"
  THEN ConnectionFailed
  ELSE IF StatusOk(reply.status)
  THEN [ok |-> TRUE, status |-> {reply.status}, summary |-> BodySummary(reply.body)]
  ELSE [ok |-> FALSE, status |-> {reply.status}, summary |-> [kind |-> "error_excerpt"]]

\* requests.get/post/patch is called without a timeout: it returns when the
\* backend answers or the transport fails, and not otherwise.
Blocks(method, reply) == method \in RequestMethods /\ reply.kind = "silent"

\* for endpoint in endpoints: test_endpoint(endpoint) sends its GET.
SendRequest ==
  /\ ppc = "loop"
  /\ idx <= total_count
  /\ probed' = Append(probed, endpoints[idx])
  /\ server' \in {"answers", "fails", "silent"}
  /\ ppc' = "waiting"
  /\ UNCHANGED <<idx, results, success_count, verdict, probeExit>>
  /\ UNCHANGED <<adminVars, call>>

RepliesOf(behaviour) ==
  IF behaviour = "answers" THEN {r \in Replies : r.kind = "response"}
  ELSE IF behaviour = "fails" THEN {[kind |-> "error"]}
  ELSE {[kind |-> "silent"]}

\* requests.get returns or raises; test_endpoint returns; main counts.
ReceiveReply ==
  /\ ppc = "waiting"
  /\ \E reply \in RepliesOf(server) :
       /\ ~Blocks("GET", reply)
       /\ LET ret == test_endpoint("GET", reply)
          IN  /\ results' = Append(results, ret.ok)
              /\ success_count' = IF ret.ok THEN success_count + 1 ELSE success_count
  /\ idx' = idx + 1
  /\ server' = None
  /\ ppc' = "loop"
  /\ UNCHANGED <<probed, verdict, probeExit>>
  /\ UNCHANGED <<adminVars, call>>

\* print the results line and the verdict.
PrintSummary ==
  /\ ppc = "loop"
  /\ idx > total_count
  /\ verdict' = IF success_count = total_count THEN "all_working" ELSE "some_failed"
  /\ ppc' = "summary"
  /\ UNCHANGED <<idx, server, probed, results, success_count, probeExit>>
  /\ UNCHANGED <<adminVars, call>>

\* main() returns None and the script ends.
ExitProbe ==
  /\ ppc = "summary"
  /\ probeExit' = 0
  /\ ppc' = "exited"
  /\ UNCHANGED <<idx, server, probed, results, success_count, verdict>>
  /\ UNCHANGED <<adminVars, call>>

AdminIdle ==
  /\ environ = << >> /\ dotenv = << >> /\ store0 = {} /\ store = {}
  /\ AdminProcsIdle

InitProbe ==
  /\ AdminIdle
  /\ ppc = "loop" /\ idx = 1 /\ server = None /\ probed = << >> /\ results = << >>
  /\ success_count = 0 /\ verdict = None /\ probeExit = -1
  /\ CallIdle

NextProbe == SendRequest \/ ReceiveReply \/ PrintSummary \/ ExitProbe

\* The script is one sequential process: it takes its next step when it has one.
SpecProbe == InitProbe /\ [][NextProbe]_vars /\ WF_vars(NextProbe)

NoReturn == [ok |-> FALSE, status |-> {}, summary |-> [kind |-> "nothing"]]

\* One call test_endpoint(endpoint, method) and what the backend does with it.
InitEndpoint ==
  /\ AdminIdle
  /\ ProbeIdle
  /\ \E e \in {endpoints[i] : i \in 1..total_count}, m \in Methods, r \in Replies :
       call = [endpoint |-> e, method |-> m, reply |-> r, pc |-> "called",
               ret |-> NoReturn]

ReturnFromCall ==
  /\ call.pc = "called"
  /\ ~Blocks(call.method, call.reply)
  /\ call' = [call EXCEPT !.pc = "returned",
                          !.ret = test_endpoint(call.method, call.reply)]
  /\ UNCHANGED <<adminVars, probeVars>>

NextEndpoint == ReturnFromCall

SpecEndpoint == InitEndpoint /\ [][NextEndpoint]_vars

(***************************************************************************)
(* Properties of the prober                                                *)
(***************************************************************************)

\* C8: a prober run probes every endpoint once, in list order, whatever the
\* earlier endpoints did (refused, status >= 400, no answer at all): until it
\* has ended after its summary the run always has a next step, and it ends
\* with every endpoint probed.
ProbeRunNeverStalls ==
  /\ ppc = "exited" \/ ENABLED NextProbe
  /\ Len(probed) <= total_count
  /\ probed = SubSeq(endpoints, 1, Len(probed))
  /\ ppc = "exited" => (probed = endpoints /\ Len(results) = total_count)

ResponseReceived(c) == c.method \in RequestMethods /\ c.reply.kind = "response"

\* C9: test_endpoint returns success exactly when a response was received
\* and its status code is below 400, whatever the body.
SuccessIffResponseBelow400 ==
  call.pc = "returned"
    => (call.ret.ok <=> (ResponseReceived(call) /\ call.reply.status < 400))

\* C9 witness: status 399 with a recognised field that has no length: success.
SucceededOnUnsizedField ==
  /\ call.pc = "returned" /\ call.ret.ok
  /\ call.reply.kind = "response" /\ call.reply.status = 399
  /\ call.reply.body.kind = "dict"
  /\ "incidents" \in DOMAIN call.reply.body.fields
  /\ ~call.reply.body.fields["incidents"].sized

\* C10: the run ends with the all-working verdict exactly when every endpoint
\* succeeded; when one failed, the verdict is the other one and the exit
\* status is not zero.
VerdictAndExitStatus ==
  ppc = "exited"
    => /\ verdict = "all_working" <=> success_count = total_count
       /\ success_count < total_count
            => (verdict = "some_failed" /\ probeExit # 0)

====
